---- MODULE Spec2Model ----
(***************************************************************************)
(* Model of the RAG service of chatbot-sentimen:                           *)
(*   src/src/modules/rag/rag.service.ts    (RagService)                    *)
(*   src/src/modules/rag/rag.controller.ts (RagController)                 *)
(*                                                                         *)
(* Texts are sequences of string tokens: a template literal is the tuple   *)
(* of its pieces, Array.join puts a separator token between the parts.     *)
(* A JSON value is a record [t, v]: t is the JavaScript type of the value  *)
(* and v its rendering by String(); a JSON object is a function from the   *)
(* keys it holds to their values.                                          *)
(***************************************************************************)
EXTENDS Integers, Sequences, FiniteSets, TLC

VARIABLES
    apiKey,       \* configService.get('GEMINI_API_KEY')
    fileExists,   \* fs.existsSync(jsonPath)
    parseOk,      \* whether JSON.parse accepts the dataset file
    jsonData,     \* the parsed dataset file
    documents,    \* the documents loadDocuments returned
    embeddings,   \* RagService.embeddings
    llm,          \* RagService.llm
    vectorStore,  \* RagService.vectorStore
    qaChain,      \* RagService.qaChain
    init,         \* progress of onModuleInit / initializeRag
    req           \* the request handlers in flight, one slot per request

vars == <<apiKey, fileExists, parseOk, jsonData, documents, embeddings, llm,
          vectorStore, qaChain, init, req>>

(***************************************************************************)
(* Bounds of the model.                                                    *)
(***************************************************************************)
MaxRecords == 2     \* longest dataset array of the document-construction runs
MaxDocs == 6        \* largest dataset of the service and retrieval runs
MaxScore == 2       \* similarity scores are 0..MaxScore
MaxRequests == 2    \* request handlers that can be in flight together

(***************************************************************************)
(* JSON values and records.                                                *)
(***************************************************************************)
Str(s) == [t |-> "string", v |-> s]
Num(n) == [t |-> "number", v |-> ToString(n)]
Undefined == [t |-> "undefined", v |-> "undefined"]

\* item[field]: undefined when the object has no such key
Get(item, field) == IF field \in DOMAIN item THEN item[field] ELSE Undefined

\* JavaScript truthiness of a value: "", 0 and undefined are falsy
IsTruthy(val) ==
    /\ val.t # "undefined"
    /\ ~(val.t = "string" /\ val.v = "")
    /\ ~(val.t = "number" /\ val.v = "0")

\* the keys of the modelled records, in the order the dataset file writes them
FieldOrder == <<"id", "nama", "kategori", "index">>

FieldValues == {Str("Kopi"), Str(""), Num(0), Num(7)}

\* every record over FieldOrder: each key absent or holding one of FieldValues
Items ==
    UNION {[present -> FieldValues] :
              present \in SUBSET {FieldOrder[i] : i \in 1..Len(FieldOrder)}}

\* Array.prototype.join(sep) over texts
RECURSIVE Join(_, _)
Join(parts, sep) ==
    IF parts = <<>> THEN <<>>
    ELSE IF Len(parts) = 1 THEN parts[1]
    ELSE parts[1] \o <<sep>> \o Join(Tail(parts), sep)

JsonValue(val) ==
    IF val.t = "string" THEN <<"\"", val.v, "\"">> ELSE <<val.v>>

\* JSON.stringify(item, null, 2)
PrettyJson(item) ==
    LET keys == SelectSeq(FieldOrder, LAMBDA k : k \in DOMAIN item)
        member(k) == <<"  ", "\"", k, "\"", ": ">> \o JsonValue(item[k])
    IN  IF keys = <<>> THEN <<"{}">>
        ELSE <<"{", "\n">>
             \o Join([i \in 1..Len(keys) |-> member(keys[i])], ",\n")
             \o <<"\n", "}">>

(***************************************************************************)
(* extractContentFromItem (rag.service.ts 159-201)                         *)
(***************************************************************************)
contentFields ==
    <<"nama", "name", "title", "judul", "deskripsi", "description", "desc",
      "kategori", "category", "jenis", "type", "alamat", "address", "lokasi",
      "location", "produk", "product", "layanan", "service", "keterangan",
      "info", "detail">>

\* a plausible slip: the typeof test is left out
IsContentValue_NoTypeof(val) == IsTruthy(val)

\* item[field] && typeof item[field] === 'string'
IsContentValue(val) == IsTruthy(val) /\ val.t = "string"

RECURSIVE contentPartsFrom(_, _)
contentPartsFrom(item, i) ==
    IF i > Len(contentFields) THEN <<>>
    ELSE LET field == contentFields[i]
         IN  (IF IsContentValue(Get(item, field))
              THEN << <<field, ": ", Get(item, field).v>> >>
              ELSE <<>>)
             \o contentPartsFrom(item, i + 1)

extractContentFromItem(item) ==
    LET found == contentPartsFrom(item, 1)
        contentParts == IF Len(found) = 0 THEN <<PrettyJson(item)>> ELSE found
    IN  Join(contentParts, "\n")

(***************************************************************************)
(* extractMetadataFromItem (rag.service.ts 203-228)                        *)
(***************************************************************************)
metadataFields ==
    <<"id", "kategori", "category", "jenis", "type", "alamat", "address",
      "kota", "city", "provinsi", "province">>

extractMetadataFromItem(item) ==
    LET copied == {metadataFields[i] : i \in 1..Len(metadataFields)}
                  \cap {f \in DOMAIN item : IsTruthy(item[f])}
    IN  [f \in copied |-> item[f]]

(***************************************************************************)
(* loadDocuments (rag.service.ts 99-157), after the file was parsed        *)
(***************************************************************************)
SourceLabel == "dataset_umkm.json"

\* { ...base, ...extra }: the later spread wins
Spread(base, extra) ==
    [k \in DOMAIN base \cup DOMAIN extra |->
        IF k \in DOMAIN extra THEN extra[k] ELSE base[k]]

MakeDocument(item, index) ==
    [pageContent |-> extractContentFromItem(item),
     metadata |-> Spread([source |-> Str(SourceLabel), index |-> Num(index)],
                         extractMetadataFromItem(item))]

\* jsonData is [isArray, items]: an array's elements, or the single object
loadDocuments(data) ==
    IF data.isArray
    THEN [i \in 1..Len(data.items) |-> MakeDocument(data.items[i], i - 1)]
    ELSE <<MakeDocument(data.items[1], 0)>>

(***************************************************************************)
(* Service fields.  A field the constructor leaves unassigned is Unset.    *)
(***************************************************************************)
Unset == [defined |-> FALSE]

NotLoaded == [loaded |-> FALSE, docs |-> <<>>]
Loaded(docs) == [loaded |-> TRUE, docs |-> docs]

NewEmbeddings(key) ==
    [defined |-> TRUE, apiKey |-> key, model |-> "embedding-001"]
NewLlm(key) ==
    [defined |-> TRUE, apiKey |-> key, model |-> "gemini-2.0-flash"]
NewVectorStore(docs) == [defined |-> TRUE, memoryVectors |-> docs]

\* vectorStore.asRetriever({ k: 5 })
RetrieverK_Four == 5 - 1
RetrieverK == 5

\* RetrievalQAChain.fromLLM(llm, retriever, {prompt, returnSourceDocuments})
NewQaChain == [defined |-> TRUE, k |-> RetrieverK, returnSourceDocuments |-> TRUE]

(***************************************************************************)
(* initializeRag (rag.service.ts 36-97).  The code runs without a real     *)
(* suspension up to the await of MemoryVectorStore.fromDocuments, and      *)
(* from its settlement to the end.  Each part is an operator that yields   *)
(* the fields it assigns; error is what initializeRag (and so              *)
(* onModuleInit) throws.                                                   *)
(***************************************************************************)
KeyMissingMessage == <<"GEMINI_API_KEY is not configured">>
FileMissingMessage == <<"Dataset file not found at: ", "src/common/data/json/dataset_umkm.json">>
ParseErrorMessage == <<"Unexpected token in JSON">>
EmbedErrorMessage == <<"embedding request failed">>

\* a plausible slip: the key is tested after the dataset was loaded
initializeRag_begin_KeyCheckLate(key, exists, ok, data) ==
    IF ~exists
    THEN [pc |-> "failed", error |-> FileMissingMessage,
          embeddings |-> Unset, llm |-> Unset,
          documents |-> NotLoaded, datasetRead |-> FALSE, embedCalls |-> 0]
    ELSE IF ~ok
    THEN [pc |-> "failed", error |-> ParseErrorMessage,
          embeddings |-> Unset, llm |-> Unset,
          documents |-> NotLoaded, datasetRead |-> TRUE, embedCalls |-> 0]
    ELSE IF ~IsTruthy(key)
    THEN [pc |-> "failed", error |-> KeyMissingMessage,
          embeddings |-> Unset, llm |-> Unset,
          documents |-> Loaded(loadDocuments(data)),
          datasetRead |-> TRUE, embedCalls |-> 0]
    ELSE [pc |-> "embedding", error |-> <<>>,
          embeddings |-> NewEmbeddings(key), llm |-> NewLlm(key),
          documents |-> Loaded(loadDocuments(data)),
          datasetRead |-> TRUE, embedCalls |-> 1]

initializeRag_begin(key, exists, ok, data) ==
    IF ~IsTruthy(key)
    THEN \* 41-43: throw before anything is built
         [pc |-> "failed", error |-> KeyMissingMessage,
          embeddings |-> Unset, llm |-> Unset, documents |-> NotLoaded,
          datasetRead |-> FALSE, embedCalls |-> 0]
    ELSE IF ~exists
    THEN \* 110-112: loadDocuments throws, 153-156 and 93-96 rethrow
         [pc |-> "failed", error |-> FileMissingMessage,
          embeddings |-> NewEmbeddings(key), llm |-> NewLlm(key),
          documents |-> NotLoaded, datasetRead |-> FALSE, embedCalls |-> 0]
    ELSE IF ~ok
    THEN \* 114: JSON.parse throws
         [pc |-> "failed", error |-> ParseErrorMessage,
          embeddings |-> NewEmbeddings(key), llm |-> NewLlm(key),
          documents |-> NotLoaded, datasetRead |-> TRUE, embedCalls |-> 0]
    ELSE \* 59-65: documents loaded, fromDocuments called and awaited
         [pc |-> "embedding", error |-> <<>>,
          embeddings |-> NewEmbeddings(key), llm |-> NewLlm(key),
          documents |-> Loaded(loadDocuments(data)),
          datasetRead |-> TRUE, embedCalls |-> 1]

\* a plausible slip: the chain is created although fromDocuments rejected
initializeRag_finish_ChainAnyway(docs, embedded) ==
    [pc |-> IF embedded THEN "done" ELSE "failed",
     error |-> IF embedded THEN <<>> ELSE EmbedErrorMessage,
     vectorStore |-> IF embedded THEN NewVectorStore(docs) ELSE Unset,
     qaChain |-> NewQaChain]

\* 62-96 after the await: the store and then the chain are assigned, or
\* the rejection is logged and rethrown
initializeRag_finish(docs, embedded) ==
    IF embedded
    THEN [pc |-> "done", error |-> <<>>,
          vectorStore |-> NewVectorStore(docs), qaChain |-> NewQaChain]
    ELSE [pc |-> "failed", error |-> EmbedErrorMessage,
          vectorStore |-> Unset, qaChain |-> Unset]

(***************************************************************************)
(* Retrieval.  MemoryVectorStore ranks every stored vector by its          *)
(* similarity with the query and the retriever keeps the first k.  The     *)
(* library is not part of the repository: the ranking follows the          *)
(* description of the retrieval step, a stable descending order by score.  *)
(* scores[i] is the similarity of the query with stored document i.        *)
(***************************************************************************)
RECURSIVE InsertByScore(_, _, _)
InsertByScore(ranked, i, scores) ==
    IF ranked = <<>> THEN <<i>>
    ELSE IF scores[Head(ranked)] >= scores[i]
         THEN <<Head(ranked)>> \o InsertByScore(Tail(ranked), i, scores)
         ELSE <<i>> \o ranked

RECURSIVE Ranking(_, _)
Ranking(n, scores) ==
    IF n = 0 THEN <<>> ELSE InsertByScore(Ranking(n - 1, scores), n, scores)

Min(a, b) == IF a <= b THEN a ELSE b

\* the positions in the store of the k best documents, best first
similaritySearch(scores, k) ==
    SubSeq(Ranking(Len(scores), scores), 1, Min(k, Len(scores)))

\* the embedding model is a fixed function of the texts: the similarity of
\* a query with stored document i
Similarity(query, i) == (i * (Len(query) + 1)) % (MaxScore + 1)

(***************************************************************************)
(* askQuestion (rag.service.ts 230-264)                                    *)
(***************************************************************************)
NotInitializedMessage == <<"RAG system is not initialized">>
FallbackAnswer == "Tidak dapat menemukan jawaban yang sesuai."
ProviderErrors == {"429 Too Many Requests", "fetch failed"}

NoResult == [defined |-> FALSE, answer |-> "", sources |-> <<>>]

\* 260-263: throw new Error(`Failed to process query: ${error.message}`)
askQuestion_catch_Rethrow(message) == message

askQuestion_catch(message) == <<"Failed to process query: ">> \o message

\* 308-311: throw new Error(`Failed to generate insights: ${error.message}`)
getInsights_catch(message) == <<"Failed to generate insights: ">> \o message

\* a plausible slip: the guard on qaChain is missing
askQuestion_begin_NoGuard(chain, query) ==
    [pc |-> "awaiting", calls |-> 1, logged |-> 0, askError |-> <<>>]

\* 231-240: the guard, then the one call of the chain, which is awaited
askQuestion_begin(chain, query) ==
    IF ~chain.defined
    THEN [pc |-> "failed", calls |-> 0, logged |-> 1,
          askError |-> askQuestion_catch(NotInitializedMessage)]
    ELSE [pc |-> "awaiting", calls |-> 1, logged |-> 0, askError |-> <<>>]

\* a plausible slip: the position in the result is used for the index
FormatSource_Position(doc, index) ==
    <<(IF IsTruthy(Get(doc.metadata, "source"))
       THEN Get(doc.metadata, "source").v ELSE "Unknown source"),
      " (Document ", ToString(index), ")">>

\* 246-249: `${source} (Document ${docIndex})`
FormatSource(doc, index) ==
    LET source == IF IsTruthy(Get(doc.metadata, "source"))
                  THEN Get(doc.metadata, "source").v ELSE "Unknown source"
        docIndex == IF Get(doc.metadata, "index").t # "undefined"
                    THEN Get(doc.metadata, "index").v ELSE ToString(index)
    IN  <<source, " (Document ", docIndex, ")">>

\* [...new Set(sources)]: the first occurrence of each string, in order
RECURSIVE Dedup(_)
Dedup(seq) ==
    IF seq = <<>> THEN <<>>
    ELSE LET init_ == Dedup(SubSeq(seq, 1, Len(seq) - 1))
             last == seq[Len(seq)]
         IN  IF \E i \in 1..Len(init_) : init_[i] = last
             THEN init_ ELSE Append(init_, last)

\* a plausible slip: ?? in place of ||, so an empty text is kept
askQuestion_result_Nullish(result) ==
    [defined |-> TRUE,
     answer |-> IF result.text.t # "undefined" THEN result.text.v
                ELSE IF result.answer.t # "undefined" THEN result.answer.v
                ELSE FallbackAnswer,
     sources |-> Dedup([i \in 1..Len(result.sourceDocuments) |->
                           FormatSource(result.sourceDocuments[i], i - 1)])]

\* 243-259: the response built from the chain's result
askQuestion_result(result) ==
    [defined |-> TRUE,
     answer |-> IF IsTruthy(result.text) THEN result.text.v
                ELSE IF IsTruthy(result.answer) THEN result.answer.v
                ELSE FallbackAnswer,
     sources |-> Dedup([i \in 1..Len(result.sourceDocuments) |->
                           FormatSource(result.sourceDocuments[i], i - 1)])]

(***************************************************************************)
(* RagController.query (rag.controller.ts 10-21) and the request slots.    *)
(* A question is a sequence of characters; a slot holds one handler from   *)
(* its call to its response.                                               *)
(***************************************************************************)
\* String.prototype.trim over a sequence of characters
RECURSIVE TrimStart(_)
TrimStart(chars) ==
    IF chars # <<>> /\ Head(chars) = " " THEN TrimStart(Tail(chars)) ELSE chars

RECURSIVE TrimEnd(_)
TrimEnd(chars) ==
    IF chars # <<>> /\ chars[Len(chars)] = " "
    THEN TrimEnd(SubSeq(chars, 1, Len(chars) - 1)) ELSE chars

Trim(chars) == TrimEnd(TrimStart(chars))

\* request bodies CreateQueryDto accepts: question is a string and not empty
Questions == {<<"U">>, <<" ", "U", " ">>, <<" ">>}

\* the hard-coded prompt of getInsights (268-304)
InsightsPrompt == <<"Buatkan key insight dan key strategy berdasarkan data di atas.">>

\* @IsString() @IsNotEmpty() question (create-query.dto.ts 3-7)
IsNotEmpty(question) == question # <<>>

\* the request bodies a client may send: the accepted ones and the empty one
Bodies == Questions \cup {<<>>}

\* rag.controller.ts 17-20: { answer: result.answer, sources: result.sources }
query_response(result) ==
    [defined |-> TRUE, answer |-> result.answer, sources |-> result.sources]

Requests == 1..MaxRequests

Idle ==
    [pc |-> "idle", kind |-> "none", query |-> <<>>, calls |-> 0, logged |-> 0,
     scores |-> <<>>, hits |-> <<>>, result |-> NoResult,
     askError |-> <<>>, error |-> <<>>,
     chainText |-> Undefined, chainAnswer |-> Undefined,
     response |-> NoResult]

Stored == IF vectorStore.defined THEN vectorStore.memoryVectors ELSE <<>>

\* the handler's state once the awaited chain call has returned `text`,
\* `answer` and the documents the retriever ranked best under `scores`
Settled(slot, scores, text, answer) ==
    LET found == similaritySearch(scores, qaChain.k)
        sourceDocuments == [i \in 1..Len(found) |-> Stored[found[i]]]
        result == askQuestion_result(
                      [text |-> text, answer |-> answer,
                       sourceDocuments |-> sourceDocuments])
    IN  [slot EXCEPT
            !.pc = "returned", !.scores = scores, !.hits = sourceDocuments,
            !.chainText = text, !.chainAnswer = answer,
            !.result = result,
            !.response = IF slot.kind = "query" THEN query_response(result)
                         ELSE result]

\* the handler's state once the awaited chain call has thrown `message`
Thrown(slot, message) ==
    LET askError == askQuestion_catch(<<message>>)
    IN  [slot EXCEPT
            !.pc = "failed", !.askError = askError,
            !.error = IF slot.kind = "insights"
                      THEN getInsights_catch(askError) ELSE askError,
            !.logged = IF slot.kind = "insights" THEN 2 ELSE 1]

ServiceUnchanged ==
    UNCHANGED <<apiKey, fileExists, parseOk, jsonData, documents, embeddings,
                llm, vectorStore, qaChain, init>>

\* onModuleInit up to the await of MemoryVectorStore.fromDocuments
OnModuleInit ==
    /\ init.pc = "start"
    /\ LET b == initializeRag_begin(apiKey, fileExists, parseOk, jsonData)
       IN  /\ embeddings' = b.embeddings
           /\ llm' = b.llm
           /\ documents' = b.documents
           /\ init' = [pc |-> b.pc, error |-> b.error,
                       datasetRead |-> b.datasetRead,
                       embedCalls |-> b.embedCalls]
    /\ UNCHANGED <<apiKey, fileExists, parseOk, jsonData, vectorStore, qaChain, req>>

\* the embedding provider answers: the store and then the chain are assigned
FromDocumentsResolves ==
    /\ init.pc = "embedding"
    /\ LET f == initializeRag_finish(documents.docs, TRUE)
       IN  /\ vectorStore' = f.vectorStore
           /\ qaChain' = f.qaChain
           /\ init' = [init EXCEPT !.pc = f.pc, !.error = f.error]
    /\ UNCHANGED <<apiKey, fileExists, parseOk, jsonData, documents, embeddings,
                   llm, req>>

\* the embedding provider fails: initializeRag logs and rethrows
FromDocumentsRejects ==
    /\ init.pc = "embedding"
    /\ LET f == initializeRag_finish(documents.docs, FALSE)
       IN  /\ vectorStore' = f.vectorStore
           /\ qaChain' = f.qaChain
           /\ init' = [init EXCEPT !.pc = f.pc, !.error = f.error]
    /\ UNCHANGED <<apiKey, fileExists, parseOk, jsonData, documents, embeddings,
                   llm, req>>

\* POST /rag/query: askQuestion(question.trim()) up to its await
Query(r, question) ==
    /\ req[r].pc = "idle"
    /\ IsNotEmpty(question)
    /\ LET query == Trim(question)
           b == askQuestion_begin(qaChain, query)
       IN  req' = [req EXCEPT ![r] =
                      [Idle EXCEPT !.pc = b.pc, !.kind = "query",
                                   !.query = query, !.calls = b.calls,
                                   !.logged = b.logged,
                                   !.askError = b.askError,
                                   !.error = b.askError]]
    /\ ServiceUnchanged

\* getInsights: askQuestion(prompt) up to its await; a throw is wrapped
GetInsights(r) ==
    /\ req[r].pc = "idle"
    /\ LET b == askQuestion_begin(qaChain, InsightsPrompt)
           failed == b.pc = "failed"
       IN  req' = [req EXCEPT ![r] =
                      [Idle EXCEPT !.pc = b.pc, !.kind = "insights",
                                   !.query = InsightsPrompt,
                                   !.calls = b.calls,
                                   !.logged = IF failed THEN b.logged + 1
                                              ELSE b.logged,
                                   !.askError = b.askError,
                                   !.error = IF failed
                                             THEN getInsights_catch(b.askError)
                                             ELSE <<>>]]
    /\ ServiceUnchanged

Texts == {Str("Jawaban"), Str(""), Undefined}
Answers == {Str("Jawaban lain"), Undefined}

\* a plausible slip: the result is kept where every waiting handler reads it
ChainResolves_Shared(r) ==
    /\ req[r].pc = "awaiting"
    /\ \E text \in Texts, answer \in Answers :
          req' = [s \in Requests |->
                    IF req[s].pc = "awaiting"
                    THEN Settled(req[s],
                                 [i \in 1..Len(Stored) |->
                                     Similarity(req[r].query, i)],
                                 text, answer)
                    ELSE req[s]]
    /\ ServiceUnchanged

\* the awaited chain call returns: 242-259
ChainResolves(r) ==
    /\ req[r].pc = "awaiting"
    /\ \E text \in Texts, answer \in Answers :
          req' = [req EXCEPT ![r] =
                     Settled(req[r],
                             [i \in 1..Len(Stored) |->
                                 Similarity(req[r].query, i)],
                             text, answer)]
    /\ ServiceUnchanged

\* the same, for an embedding model that may give any scores
ChainResolvesAny(r) ==
    /\ req[r].pc = "awaiting"
    /\ \E scores \in [1..Len(Stored) -> 0..MaxScore] :
          req' = [req EXCEPT ![r] =
                     Settled(req[r], scores, Str("Jawaban"), Undefined)]
    /\ ServiceUnchanged

\* a plausible slip: a failed call drops the chain to force a rebuild
ChainRejects_DropChain(r) ==
    /\ req[r].pc = "awaiting"
    /\ \E message \in ProviderErrors :
          req' = [req EXCEPT ![r] = Thrown(req[r], message)]
    /\ qaChain' = Unset
    /\ UNCHANGED <<apiKey, fileExists, parseOk, jsonData, documents, embeddings,
                   llm, vectorStore, init>>

\* the awaited chain call throws: 260-263, and 308-311 for getInsights
ChainRejects(r) ==
    /\ req[r].pc = "awaiting"
    /\ \E message \in ProviderErrors :
          req' = [req EXCEPT ![r] = Thrown(req[r], message)]
    /\ ServiceUnchanged

\* the response or the error leaves the handler
Respond(r) ==
    /\ req[r].pc \in {"returned", "failed"}
    /\ req' = [req EXCEPT ![r] = Idle]
    /\ ServiceUnchanged

(***************************************************************************)
(* The service: startup, then requests that may overlap at their awaits.   *)
(***************************************************************************)
SampleItem(i) ==
    IF i % 2 = 1 THEN [id |-> Num(i), nama |-> Str("Kopi")]
    ELSE [id |-> Num(i), kategori |-> Str("Kuliner")]

SampleDataset(n) == [isArray |-> TRUE, items |-> [i \in 1..n |-> SampleItem(i)]]

SingleObject(item) == [isArray |-> FALSE, items |-> <<item>>]

Datasets == {SampleDataset(n) : n \in 0..MaxDocs} \cup {SingleObject(SampleItem(1))}

ApiKeys == {Undefined, Str(""), Str("AIzaSy")}

InitStart == [pc |-> "start", error |-> <<>>, datasetRead |-> FALSE, embedCalls |-> 0]

Init ==
    /\ apiKey \in ApiKeys
    /\ fileExists \in BOOLEAN
    /\ parseOk \in BOOLEAN
    /\ jsonData \in Datasets
    /\ ~fileExists => ~parseOk
    /\ ~parseOk => jsonData = SampleDataset(0)
    /\ documents = NotLoaded
    /\ embeddings = Unset
    /\ llm = Unset
    /\ vectorStore = Unset
    /\ qaChain = Unset
    /\ init = InitStart
    /\ req = [r \in Requests |-> Idle]

Next ==
    \/ OnModuleInit
    \/ FromDocumentsResolves
    \/ FromDocumentsRejects
    \/ \E r \in Requests, question \in Bodies : Query(r, question)
    \/ \E r \in Requests : GetInsights(r)
    \/ \E r \in Requests : ChainResolves(r)
    \/ \E r \in Requests : ChainRejects(r)
    \/ \E r \in Requests : Respond(r)

Spec == Init /\ [][Next]_vars

(***************************************************************************)
(* One request at a time against an initialized service whose embedding    *)
(* model may give any scores.                                              *)
(***************************************************************************)
InitAsk ==
    /\ apiKey = Str("AIzaSy")
    /\ fileExists = TRUE
    /\ parseOk = TRUE
    /\ jsonData \in {SampleDataset(n) : n \in 0..MaxDocs}
    /\ documents = Loaded(loadDocuments(jsonData))
    /\ embeddings = NewEmbeddings(apiKey)
    /\ llm = NewLlm(apiKey)
    /\ vectorStore = NewVectorStore(documents.docs)
    /\ qaChain = NewQaChain
    /\ init = [pc |-> "done", error |-> <<>>, datasetRead |-> TRUE, embedCalls |-> 1]
    /\ req = [r \in Requests |-> Idle]

NextAsk ==
    \/ Query(1, <<"U">>)
    \/ ChainResolvesAny(1)
    \/ Respond(1)

SpecAsk == InitAsk /\ [][NextAsk]_vars

(***************************************************************************)
(* Document construction on every record of the universe.                  *)
(***************************************************************************)
ArrayItems == {item \in Items : DOMAIN item \subseteq {"id", "nama"}}

LoadInputs ==
    {SingleObject(item) : item \in Items}
    \cup {[isArray |-> TRUE, items |-> items] :
             items \in UNION {[1..n -> ArrayItems] : n \in 0..MaxRecords}}

InitLoad ==
    /\ apiKey = Str("AIzaSy")
    /\ fileExists = TRUE
    /\ parseOk = TRUE
    /\ jsonData \in LoadInputs
    /\ documents = NotLoaded
    /\ embeddings = NewEmbeddings(apiKey)
    /\ llm = NewLlm(apiKey)
    /\ vectorStore = Unset
    /\ qaChain = Unset
    /\ init = InitStart
    /\ req = [r \in Requests |-> Idle]

\* 59: const documents = await this.loadDocuments()
LoadDocuments ==
    /\ ~documents.loaded
    /\ documents' = Loaded(loadDocuments(jsonData))
    /\ UNCHANGED <<apiKey, fileExists, parseOk, jsonData, embeddings, llm,
                   vectorStore, qaChain, init, req>>

NextLoad == LoadDocuments

SpecLoad == InitLoad /\ [][NextLoad]_vars

(***************************************************************************)
(* Properties.                                                             *)
(***************************************************************************)
EndsWith(text, suffix) ==
    /\ Len(text) >= Len(suffix)
    /\ SubSeq(text, Len(text) - Len(suffix) + 1, Len(text)) = suffix

NoDuplicates(seq) ==
    \A i, j \in 1..Len(seq) : seq[i] = seq[j] => i = j

\* a handler that starts in this step, in slot r
Starts(r) == req[r].pc = "idle" /\ req'[r].pc # "idle"

\* C1: a call of askQuestion or getInsights made while qaChain is unset
\* (initialization not started, pending or failed) fails with an error
\* whose message ends in the not-initialized message, without a call of
\* the chain and without a result.
C1_UninitializedCallFails ==
    [][\A r \in Requests :
          (Starts(r) /\ ~qaChain.defined) =>
              /\ req'[r].pc = "failed"
              /\ req'[r].calls = 0
              /\ ~req'[r].result.defined
              /\ EndsWith(req'[r].askError, NotInitializedMessage)
              /\ EndsWith(req'[r].error, NotInitializedMessage)]_vars

\* a query failed while the embedding of the documents was still awaited,
\* and getInsights failed too
C1_Witness ==
    /\ init.pc = "embedding"
    /\ \E r, s \in Requests :
          /\ req[r].kind = "query" /\ req[r].pc = "failed" /\ req[r].calls = 0
          /\ req[s].kind = "insights" /\ req[s].pc = "failed" /\ req[s].calls = 0

\* C2: with GEMINI_API_KEY undefined or empty, initializeRag ends by
\* throwing the not-configured error out of onModuleInit, and the dataset
\* was not read, no embedding call was made, and neither the vector store
\* nor the QA chain was created.
C2_MissingKeyFailsFast ==
    (~IsTruthy(apiKey) /\ init.pc # "start") =>
        /\ init.pc = "failed"
        /\ init.error = KeyMissingMessage
        /\ ~init.datasetRead
        /\ ~documents.loaded
        /\ init.embedCalls = 0
        /\ ~vectorStore.defined
        /\ ~qaChain.defined

\* startup failed on an empty key although the dataset file was readable
C2_Witness ==
    /\ apiKey = Str("")
    /\ fileExists /\ parseOk /\ Len(jsonData.items) > 0
    /\ init.pc = "failed"

\* C3: a handler calls the chain at most once; when that call throws,
\* askQuestion has logged and throws 'Failed to process query: ' followed
\* by the provider's message, and holds no answer and no sources.
C3_ProviderErrorWrapped ==
    \A r \in Requests :
        /\ req[r].calls <= 1
        /\ req[r].pc \in {"awaiting", "returned"} => req[r].calls = 1
        /\ (req[r].pc = "failed" /\ req[r].calls = 1) =>
              /\ \E message \in ProviderErrors :
                    req[r].askError = <<"Failed to process query: ", message>>
              /\ req[r].logged >= 1
              /\ ~req[r].result.defined
              /\ req[r].hits = <<>>

\* the chain call of a query threw
C3_Witness ==
    \E r \in Requests :
        req[r].kind = "query" /\ req[r].pc = "failed" /\ req[r].calls = 1

\* the position in the store of a retrieved document
StorePosition(doc) == CHOOSE i \in 1..Len(Stored) : Stored[i] = doc

\* C4: a search over N stored documents returns min(5, N) distinct stored
\* documents; no document left out scores strictly higher than a returned
\* one; the results are in descending order of score, and in insertion
\* order where the scores are equal.
C4_TopFiveByScore ==
    \A r \in Requests :
        req[r].pc = "returned" =>
            LET hits == req[r].hits
                scores == req[r].scores
                at(h) == StorePosition(hits[h])
                returned == {at(h) : h \in 1..Len(hits)}
            IN  /\ Len(hits) = Min(5, Len(Stored))
                /\ \A h \in 1..Len(hits) :
                      \E i \in 1..Len(Stored) : Stored[i] = hits[h]
                /\ NoDuplicates(hits)
                /\ \A j \in (1..Len(Stored)) \ returned :
                      \A i \in returned : scores[j] <= scores[i]
                /\ \A h, g \in 1..Len(hits) :
                      h < g =>
                          \/ scores[at(h)] > scores[at(g)]
                          \/ scores[at(h)] = scores[at(g)] /\ at(h) < at(g)

\* more than five documents stored, the last one scoring above the first
C4_Witness ==
    /\ req[1].pc = "returned"
    /\ Len(Stored) > 5
    /\ req[1].scores[Len(Stored)] > req[1].scores[1]
    /\ req[1].scores[2] = req[1].scores[1]

\* the allow-listed content fields a record holds, and those among them
\* that hold a non-empty string
PresentContentFields(item) ==
    SelectSeq(contentFields, LAMBDA f : f \in DOMAIN item)

StringContentFields(item) ==
    SelectSeq(contentFields,
              LAMBDA f : f \in DOMAIN item /\ item[f].t = "string" /\ item[f].v # "")

FieldLines(item, fields) ==
    Join([i \in 1..Len(fields) |-> <<fields[i], ": ", item[fields[i]].v>>], "\n")

\* C5 as stated: the content is the allow-listed fields present in the
\* record, one '<field>: <value>' line each in allow-list order, and the
\* pretty-printed JSON is used iff no allow-listed field is present.
C5_PresentFieldsRendered ==
    documents.loaded =>
        \A i \in 1..Len(documents.docs) :
            LET item == jsonData.items[i]
                shown == PresentContentFields(item)
                content == documents.docs[i].pageContent
            IN  /\ shown # <<>> => content = FieldLines(item, shown)
                /\ content = PrettyJson(item) <=> shown = <<>>

\* C5 (amended): the content is the allow-listed fields whose value in the
\* record is a non-empty string, one '<field>: <value>' line each in
\* allow-list order, and the pretty-printed JSON of the record is used iff
\* no allow-listed field holds a non-empty string.
C5_StringFieldsRendered ==
    documents.loaded =>
        \A i \in 1..Len(documents.docs) :
            LET item == jsonData.items[i]
                shown == StringContentFields(item)
                content == documents.docs[i].pageContent
            IN  /\ shown # <<>> => content = FieldLines(item, shown)
                /\ content = PrettyJson(item) <=> shown = <<>>

\* a record with a numeric nama and a string kategori was converted
C5_Witness ==
    /\ documents.loaded
    /\ \E i \in 1..Len(documents.docs) :
          /\ Get(jsonData.items[i], "nama") = Num(7)
          /\ Get(jsonData.items[i], "kategori") = Str("Kopi")
          /\ documents.docs[i].pageContent = <<"kategori", ": ", "Kopi">>

\* C6: one document per record in dataset order (one document with index
\* 0 for a single object); each metadata has source 'dataset_umkm.json',
\* index the record's position, and a copy of every metadata allow-list
\* field present in the record.
C6_MetadataCopiesPresentFields ==
    documents.loaded =>
        /\ Len(documents.docs) = Len(jsonData.items)
        /\ \A i \in 1..Len(documents.docs) :
              LET item == jsonData.items[i]
                  metadata == documents.docs[i].metadata
              IN  /\ Get(metadata, "source") = Str(SourceLabel)
                  /\ Get(metadata, "index") = Num(i - 1)
                  /\ \A k \in 1..Len(metadataFields) :
                        metadataFields[k] \in DOMAIN item =>
                            Get(metadata, metadataFields[k]) = item[metadataFields[k]]

\* C7: the sources of a successful askQuestion hold no string twice, and
\* as a set are the '<source-label> (Document <index>)' renderings of the
\* retrieved documents; so there are at most five.
C7_SourcesAreRetrievedDocuments ==
    \A r \in Requests :
        req[r].pc = "returned" =>
            LET sources == req[r].result.sources
                hits == req[r].hits
            IN  /\ NoDuplicates(sources)
                /\ {sources[i] : i \in 1..Len(sources)}
                     = {<<SourceLabel, " (Document ",
                          ToString(StorePosition(hits[h]) - 1), ")">> :
                           h \in 1..Len(hits)}
                /\ Len(sources) <= 5

\* five sources, the sixth record of the dataset first
C7_Witness ==
    /\ req[1].pc = "returned"
    /\ Len(req[1].result.sources) = 5
    /\ req[1].result.sources[1] = <<SourceLabel, " (Document ", "5", ")">>

\* C8: once initializeRag has completed, no step (a call, a return or a
\* failure of askQuestion or getInsights) changes the loaded documents,
\* the vector store, the embeddings and LLM clients or the QA chain, and
\* initialization does not run again.
C8_SnapshotReadOnly ==
    [][init.pc = "done" =>
          /\ UNCHANGED <<documents, vectorStore, embeddings, llm, qaChain>>
          /\ init' = init]_vars

\* after startup one call has returned and another has failed
C8_Witness ==
    /\ init.pc = "done"
    /\ \E r, s \in Requests :
          /\ req[r].pc = "returned"
          /\ req[s].pc = "failed" /\ req[s].calls = 1

\* C9 as stated: at most one askQuestion invocation is in progress (its
\* chain call awaited) at any time.
C9_OneAtATime ==
    Cardinality({r \in Requests : req[r].pc = "awaiting"}) <= 1

\* C9 (amended): invocations may overlap at the awaited chain call; a step
\* of one invocation changes the state of no other invocation.
C9_OverlappingCallsIsolated ==
    [][\A r, s \in Requests :
          (r # s /\ req'[r] # req[r]) => req'[s] = req[s]]_vars

\* one call has returned while another is still awaited
C9_Witness ==
    \E r, s \in Requests :
        /\ req[r].pc = "returned"
        /\ req[s].pc = "awaiting"

\* C10: qaChain is set exactly when initializeRag has completed, and then
\* the embeddings client, the LLM client and the vector store are set and
\* hold the loaded documents; after a failed initialization qaChain stays
\* unset and every askQuestion started fails as not initialized.
C10_ChainSetLast ==
    /\ [](/\ qaChain.defined <=> init.pc = "done"
          /\ qaChain.defined =>
                /\ embeddings.defined
                /\ llm.defined
                /\ vectorStore.defined
                /\ documents.loaded
                /\ vectorStore.memoryVectors = documents.docs)
    /\ [][init.pc = "failed" =>
            /\ init'.pc = "failed"
            /\ ~qaChain'.defined
            /\ \A r \in Requests :
                  Starts(r) =>
                      /\ req'[r].pc = "failed"
                      /\ req'[r].calls = 0
                      /\ EndsWith(req'[r].askError, NotInitializedMessage)]_vars

\* a call failed after the embedding of the documents had failed
C10_Witness ==
    /\ init.pc = "failed"
    /\ init.error = EmbedErrorMessage
    /\ \E r \in Requests : req[r].pc = "failed"

\* a string that is not empty
NonEmptyString(val) == val.t = "string" /\ val.v # ""

\* C11: a successful askQuestion returns a non-empty answer: the chain
\* result's text if that is non-empty, else its answer field if that is
\* non-empty, else the fixed fallback string; and its sources are a list,
\* empty when the chain returned no source documents.
C11_AnswerNeverEmpty ==
    \A r \in Requests :
        req[r].pc = "returned" =>
            /\ req[r].result.defined
            /\ req[r].result.answer # ""
            /\ req[r].result.answer =
                  (IF NonEmptyString(req[r].chainText) THEN req[r].chainText.v
                   ELSE IF NonEmptyString(req[r].chainAnswer)
                        THEN req[r].chainAnswer.v
                   ELSE FallbackAnswer)
            /\ Len(req[r].result.sources) <= Len(req[r].hits)
            /\ req[r].hits = <<>> => req[r].result.sources = <<>>

\* the chain returned an empty text, no answer field and no documents
C11_Witness ==
    \E r \in Requests :
        /\ req[r].pc = "returned"
        /\ req[r].chainText = Str("")
        /\ req[r].chainAnswer = Undefined
        /\ req[r].hits = <<>>
        /\ req[r].result = [defined |-> TRUE, answer |-> FallbackAnswer,
                             sources |-> <<>>]

\* C12: for every request body CreateQueryDto accepts, the query that
\* RagController.query passes to askQuestion is non-empty and has neither
\* leading nor trailing whitespace, and the response's answer and sources
\* are those askQuestion returned.
C12_QueryTrimmedAndNonEmpty ==
    \A r \in Requests :
        req[r].kind = "query" =>
            /\ req[r].query # <<>>
            /\ Head(req[r].query) # " "
            /\ req[r].query[Len(req[r].query)] # " "
            /\ req[r].pc = "returned" =>
                  /\ req[r].response.defined
                  /\ req[r].response.answer = req[r].result.answer
                  /\ req[r].response.sources = req[r].result.sources
====
